---- MODULE Spec2Model ----
(***************************************************************************)
(* Model of rlog/handlers.py: PickleHandler (one pickle file per logger,   *)
(* read-modify-write on every record) and TensorboardHandler (records      *)
(* forwarded to a SummaryWriter).                                          *)
(*                                                                         *)
(* Strings the code edits (logger names, dict keys, file names, tags) are  *)
(* sequences of one-character strings, so that str.replace and the         *)
(* f-strings are computed character by character.  Strings the code only   *)
(* stores (text messages, log_dir) are atomic.                             *)
(***************************************************************************)
EXTENDS Integers, Sequences, FiniteSets, TLC

\* ------------------------------------------------------------------ bounds

\* Number of calls (emit, close) made to a sink in one run.
MaxEmits == 3

\* Number of calls in a run that feeds both sinks.
MaxBothEmits == 2

\* ------------------------------------------------------------------ inputs

\* Logger names.  "a.b" and "a_b" differ only in the character that
\* _maybe_load/_save replace; "c" shares nothing with them.
Names == { <<"a", ".", "b">>, <<"a", "_", "b">>, <<"c">> }

LogDirs == {"d1"}

\* The reserved key of a dict message, and the field _add_text writes.
Step == <<"s", "t", "e", "p">>
Text == <<"t", "e", "x", "t">>

\* Keys a dict message may hold.
Keys == { Step, Text, <<"x">> }

Steps == {1}
MetricValues == {5}
Texts == {"m1", "m2"}

\* record.msg: a str, a dict (insertion-ordered items with distinct keys) or
\* anything else (a number).  One record shape for the three, tagged by kind.
StrMsg(s) == [kind |-> "str", str |-> s, items |-> <<>>, num |-> 0]
DictMsg(items) == [kind |-> "dict", str |-> "", items |-> items, num |-> 0]
NumMsg(n) == [kind |-> "num", str |-> "", items |-> <<>>, num |-> n]

Item(k, v) == [k |-> k, v |-> v]

ItemsOf(k) == { Item(k, v) : v \in (IF k = Step THEN Steps ELSE MetricValues) }

AllItems == UNION { ItemsOf(k) : k \in Keys }

\* Every dict over Keys: all orders of every subset of the keys.
DictItems ==
  { s \in UNION { [1..n -> AllItems] : n \in 0..Cardinality(Keys) } :
      \A i, j \in DOMAIN s : i # j => s[i].k # s[j].k }

Msgs == { StrMsg(s) : s \in Texts } \cup { DictMsg(s) : s \in DictItems }
          \cup { NumMsg(3) }

LogRecord(name, msg, created) ==
  [name |-> name, msg |-> msg, created |-> created]

NoRecord == LogRecord(<<>>, NumMsg(0), 0)

\* ----------------------------------------------------------------- strings

\* str.replace(old, new) for one-character old and new.
Replace(s, old, new) == [i \in DOMAIN s |-> IF s[i] = old THEN new ELSE s[i]]

\* ------------------------------------------------------------ snapshot data

\* An entry of a list in the snapshot: a raw str (from _add_text) or a
\* {"step", "value", "time"} dict (from _add_scalars).
StrEntry(s) == [kind |-> "str", str |-> s, step |-> 0, value |-> 0, time |-> 0]
ScalarEntry(step, v, t) ==
  [kind |-> "scalar", str |-> "", step |-> step, value |-> v, time |-> t]
NoEntry == [kind |-> "none", str |-> "", step |-> 0, value |-> 0, time |-> 0]

\* `data`, a Python dict of lists, is a sequence of [k, v] fields in
\* insertion order.
HasKey(data, k) == \E i \in DOMAIN data : data[i].k = k

Get(data, k) ==
  IF HasKey(data, k)
  THEN data[CHOOSE i \in DOMAIN data : data[i].k = k].v
  ELSE <<>>

\* data[k].append(entry) if k in data else data[k] = [entry]
AppendTo(data, k, entry) ==
  IF HasKey(data, k)
  THEN [i \in DOMAIN data |->
          IF data[i].k = k THEN [data[i] EXCEPT !.v = Append(@, entry)]
          ELSE data[i]]
  ELSE Append(data, [k |-> k, v |-> <<entry>>])

\* ------------------------------------------------------------------ pickle

\* The pickle stream of a dict of lists: per field a KEY token followed by
\* one ITEM token per list entry, closed by STOP.  Unpickling reads up to the
\* first STOP and ignores what follows it.
KeyTok(k) == [op |-> "KEY", key |-> k, item |-> NoEntry]
ItemTok(e) == [op |-> "ITEM", key |-> <<>>, item |-> e]
StopTok == [op |-> "STOP", key |-> <<>>, item |-> NoEntry]

RECURSIVE DumpFields(_)
DumpFields(data) ==
  IF data = <<>> THEN <<>>
  ELSE <<KeyTok(Head(data).k)>>
         \o [i \in 1..Len(Head(data).v) |-> ItemTok(Head(data).v[i])]
         \o DumpFields(Tail(data))

pickle_dump(data) == DumpFields(data) \o <<StopTok>>

\* pickle.load: [ok, data]; ok is FALSE when the stream ends before STOP
\* (EOFError on an empty file) or is malformed.
RECURSIVE LoadFrom(_, _, _)
LoadFrom(bytes, i, acc) ==
  IF i > Len(bytes) THEN [ok |-> FALSE, data |-> <<>>]
  ELSE IF bytes[i].op = "STOP" THEN [ok |-> TRUE, data |-> acc]
  ELSE IF bytes[i].op = "KEY"
    THEN LoadFrom(bytes, i + 1, Append(acc, [k |-> bytes[i].key, v |-> <<>>]))
  ELSE IF acc = <<>> THEN [ok |-> FALSE, data |-> <<>>]
  ELSE LoadFrom(bytes, i + 1,
                [acc EXCEPT ![Len(acc)].v = Append(@, bytes[i].item)])

pickle_load(bytes) == LoadFrom(bytes, 1, <<>>)

\* ------------------------------------------------------------- file system

\* open(file_path, "wb"): the file exists and is empty.
open_wb(files, path) ==
  [p \in DOMAIN files \cup {path} |-> IF p = path THEN <<>> ELSE files[p]]

\* Mutant of the write: the file is opened for appending ("ab").
write_close_appends(files, path, bytes) == [files EXCEPT ![path] = @ \o bytes]

\* f.write(bytes) at offset 0 of an open file, then close: bytes replace the
\* head of whatever the file holds at that moment.
write_close(files, path, bytes) ==
  [files EXCEPT ![path] = bytes \o SubSeq(@, Len(bytes) + 1, Len(@))]

\* ----------------------------------------------------------- PickleHandler

PklSuffix == <<".", "p", "k", "l">>

\* Mutant of LoadPath: the "." of the logger name is kept.
LoadPath_keeps_dot(log_dir, logger_name) == <<log_dir, logger_name \o PklSuffix>>

\* Path(self.log_dir, f"{file_name}.pkl") in _maybe_load
LoadPath(log_dir, logger_name) ==
  <<log_dir, Replace(logger_name, ".", "_") \o PklSuffix>>

\* Path(self.log_dir, f"{file_name}.pkl") in _save
SavePath(log_dir, logger_name) ==
  <<log_dir, Replace(logger_name, ".", "_") \o PklSuffix>>

\* [ok, data]: the unpickled file, {} when there is no file.
maybe_load(log_dir, logger_name, files) ==
  LET file_path == LoadPath(log_dir, logger_name)
  IN IF file_path \in DOMAIN files
     THEN pickle_load(files[file_path])
     ELSE [ok |-> TRUE, data |-> <<>>]

save(log_dir, logger_name, data, files) ==
  LET file_path == SavePath(log_dir, logger_name)
  IN write_close(open_wb(files, file_path), file_path, pickle_dump(data))

\* Mutant of _add_text: data["text"] = [record.msg] whatever data holds.
Pickle_add_text_overwrites(record, data) ==
  IF HasKey(data, Text)
  THEN [i \in DOMAIN data |->
          IF data[i].k = Text
          THEN [data[i] EXCEPT !.v = <<StrEntry(record.msg.str)>>]
          ELSE data[i]]
  ELSE Append(data, [k |-> Text, v |-> <<StrEntry(record.msg.str)>>])

Pickle_add_text(record, data) == AppendTo(data, Text, StrEntry(record.msg.str))

\* record.msg["step"]: [ok, step]; ok is FALSE on KeyError.
LookupStep(items) ==
  IF \E i \in DOMAIN items : items[i].k = Step
  THEN [ok |-> TRUE,
        step |-> items[CHOOSE i \in DOMAIN items : items[i].k = Step].v]
  ELSE [ok |-> FALSE, step |-> 0]

\* Mutant of the loop: no `if k != "step"`.
RECURSIVE PickleScalarLoop_keeps_step(_, _, _, _)
PickleScalarLoop_keeps_step(items, step, created, data) ==
  IF items = <<>> THEN data
  ELSE PickleScalarLoop_keeps_step(
         Tail(items), step, created,
         AppendTo(data, Head(items).k,
                  ScalarEntry(step, Head(items).v, created)))

\* The loop over record.msg.items().
RECURSIVE PickleScalarLoop(_, _, _, _)
PickleScalarLoop(items, step, created, data) ==
  IF items = <<>> THEN data
  ELSE PickleScalarLoop(
         Tail(items), step, created,
         IF Head(items).k # Step
         THEN AppendTo(data, Head(items).k,
                       ScalarEntry(step, Head(items).v, created))
         ELSE data)

\* Mutant of _add_scalars: record.msg.get("step", 0), no exception.
Pickle_add_scalars_default_step(record, data) ==
  [ok |-> TRUE,
   data |-> PickleScalarLoop(record.msg.items, LookupStep(record.msg.items).step,
                             record.created, data)]

\* [ok, data]; ok is FALSE when the AttributeError is raised.
Pickle_add_scalars(record, data) ==
  LET st == LookupStep(record.msg.items)
  IN IF st.ok
     THEN [ok |-> TRUE,
           data |-> PickleScalarLoop(record.msg.items, st.step,
                                     record.created, data)]
     ELSE [ok |-> FALSE, data |-> data]

\* Mutant of emit: no else branch, whatever is not a str or a dict is saved
\* as it was loaded.
PickleHandler_emit_no_else(log_dir, record, files) ==
  LET loaded == maybe_load(log_dir, record.name, files)
  IN [result |-> "ok", data |-> loaded.data,
      files |-> save(log_dir, record.name, loaded.data, files)]

\* PickleHandler.emit run to completion: [result, files, data], where data is
\* what was handed to _save (the loaded data when nothing was saved).
PickleHandler_emit(log_dir, record, files) ==
  LET loaded == maybe_load(log_dir, record.name, files)
  IN IF ~loaded.ok
       THEN [result |-> "EOFError", files |-> files, data |-> loaded.data]
     ELSE IF record.msg.kind = "str"
       THEN LET data == Pickle_add_text(record, loaded.data)
            IN [result |-> "ok", data |-> data,
                files |-> save(log_dir, record.name, data, files)]
     ELSE IF record.msg.kind = "dict"
       THEN LET r == Pickle_add_scalars(record, loaded.data)
            IN IF r.ok
               THEN [result |-> "ok", data |-> r.data,
                     files |-> save(log_dir, record.name, r.data, files)]
               ELSE [result |-> "AttributeError", files |-> files,
                     data |-> loaded.data]
     ELSE [result |-> "TypeError", files |-> files, data |-> loaded.data]

\* ------------------------------------------------------ TensorboardHandler

\* A call received by self.writer.
AddText(tag, text) ==
  [op |-> "add_text", tag |-> tag, text |-> text, value |-> 0, step |-> 0]
AddScalar(tag, v, step) ==
  [op |-> "add_scalar", tag |-> tag, text |-> "", value |-> v, step |-> step]
CloseCall == [op |-> "close", tag |-> <<>>, text |-> "", value |-> 0, step |-> 0]

TB_add_text(record, calls) ==
  LET rec_name == Replace(record.name, ".", "/")
  IN Append(calls, AddText(rec_name, record.msg.str))

\* Mutant of the loop: no `if k != "step"`.
RECURSIVE TBScalarLoop_keeps_step(_, _, _, _)
TBScalarLoop_keeps_step(items, rec_name, step, calls) ==
  IF items = <<>> THEN calls
  ELSE TBScalarLoop_keeps_step(
         Tail(items), rec_name, step,
         Append(calls, AddScalar(rec_name \o <<"/">> \o Head(items).k,
                                 Head(items).v, step)))

RECURSIVE TBScalarLoop(_, _, _, _)
TBScalarLoop(items, rec_name, step, calls) ==
  IF items = <<>> THEN calls
  ELSE TBScalarLoop(
         Tail(items), rec_name, step,
         IF Head(items).k # Step
         THEN Append(calls, AddScalar(rec_name \o <<"/">> \o Head(items).k,
                                      Head(items).v, step))
         ELSE calls)

\* [ok, calls]; ok is FALSE when the AttributeError is raised.
TB_add_scalars(record, calls) ==
  LET rec_name == Replace(record.name, ".", "/")
      st == LookupStep(record.msg.items)
  IN IF st.ok
     THEN [ok |-> TRUE,
           calls |-> TBScalarLoop(record.msg.items, rec_name, st.step, calls)]
     ELSE [ok |-> FALSE, calls |-> calls]

\* TensorboardHandler.emit: [result, calls].
TensorboardHandler_emit(record, calls) ==
  IF record.msg.kind = "str"
  THEN [result |-> "ok", calls |-> TB_add_text(record, calls)]
  ELSE IF record.msg.kind = "dict"
    THEN LET r == TB_add_scalars(record, calls)
         IN [result |-> IF r.ok THEN "ok" ELSE "AttributeError",
             calls |-> r.calls]
  ELSE [result |-> "TypeError", calls |-> calls]

\* TensorboardHandler.close: self.writer.close(), whatever came before.
TensorboardHandler_close(calls) == Append(calls, CloseCall)

\* ------------------------------------------------------------------- state

VARIABLES
  handler,       \* the PickleHandler in use: self.log_dir, and whether it is
                 \* fresh (constructed, no emit yet)
  fs,            \* the files: path -> pickle stream
  writer_calls,  \* the calls self.writer of the TensorboardHandler received
  now,           \* the clock that stamps record.created
  call,          \* the last call made to a sink
  result,        \* how it ended: "constructed", "ok" or the exception raised
  sent,          \* history, per (log_dir, name): what was submitted
  saved,         \* history, per path: the data last handed to _save
  pc,            \* concurrent callers: where each is inside emit
  trec,          \* concurrent callers: the record of each
  tdata,         \* concurrent callers: the local `data` of each
  events         \* history: the file operations of the callers, in order

vars == <<handler, fs, writer_calls, now, call, result, sent, saved,
          pc, trec, tdata, events>>

conc_vars == <<pc, trec, tdata, events>>

\* Two callers of emit that nothing serialises.
Threads == {1, 2}

StartTime == 10

Call(sink, op, record) == [sink |-> sink, op |-> op, record |-> record]

\* What has been submitted under one stream: the text messages in order, as
\* long as every record was a text record.
NothingSent == [only_text |-> TRUE, texts |-> <<>>]

SentUnder(log_dir, name) ==
  IF <<log_dir, name>> \in DOMAIN sent THEN sent[<<log_dir, name>>]
  ELSE NothingSent

Submit(s, msg) ==
  IF s.only_text /\ msg.kind = "str"
  THEN [only_text |-> TRUE, texts |-> Append(s.texts, msg.str)]
  ELSE [only_text |-> FALSE, texts |-> <<>>]

Init ==
  /\ handler \in { [log_dir |-> d, fresh |-> TRUE] : d \in LogDirs }
  /\ fs = <<>>
  /\ writer_calls = <<>>
  /\ now = StartTime
  /\ call = Call("none", "none", NoRecord)
  /\ result = "none"
  /\ sent = <<>>
  /\ saved = <<>>
  /\ pc = [t \in Threads |-> "start"]
  /\ trec = [t \in Threads |-> NoRecord]
  /\ tdata = [t \in Threads |-> <<>>]
  /\ events = <<>>

\* PickleHandler(log_dir): a new instance replaces the one in use (the
\* program restarts, or builds another sink).
PickleInit(log_dir) ==
  /\ ~handler.fresh
  /\ handler' = [log_dir |-> log_dir, fresh |-> TRUE]
  /\ call' = Call("pickle", "init", NoRecord)
  /\ result' = "constructed"
  /\ UNCHANGED <<fs, writer_calls, now, sent, saved, conc_vars>>

\* handler.emit(record)
PickleEmit(name, msg) ==
  /\ now < StartTime + MaxEmits
  /\ \E out \in {PickleHandler_emit(handler.log_dir,
                                    LogRecord(name, msg, now), fs)} :
     LET record == LogRecord(name, msg, now)
         key == <<handler.log_dir, name>>
         path == SavePath(handler.log_dir, name)
     IN
     /\ now' = now + 1
     /\ handler' = [handler EXCEPT !.fresh = FALSE]
     /\ call' = Call("pickle", "emit", record)
     /\ fs' = out.files
     /\ result' = out.result
     /\ sent' = [k \in DOMAIN sent \cup {key} |->
                   IF k = key THEN Submit(SentUnder(handler.log_dir, name), msg)
                   ELSE sent[k]]
     /\ saved' = IF out.result = "ok"
                 THEN [p \in DOMAIN saved \cup {path} |->
                         IF p = path THEN out.data ELSE saved[p]]
                 ELSE saved
     /\ UNCHANGED <<writer_calls, conc_vars>>

\* TensorboardHandler.emit(record)
TBEmit(name, msg) ==
  /\ now < StartTime + MaxEmits
  /\ \E out \in {TensorboardHandler_emit(LogRecord(name, msg, now),
                                         writer_calls)} :
     LET record == LogRecord(name, msg, now)
     IN
     /\ now' = now + 1
     /\ call' = Call("tb", "emit", record)
     /\ writer_calls' = out.calls
     /\ result' = out.result
     /\ UNCHANGED <<handler, fs, sent, saved, conc_vars>>

\* TensorboardHandler.close()
TBClose ==
  /\ now < StartTime + MaxEmits
  /\ now' = now + 1
  /\ call' = Call("tb", "close", NoRecord)
  /\ writer_calls' = TensorboardHandler_close(writer_calls)
  /\ result' = "ok"
  /\ UNCHANGED <<handler, fs, sent, saved, conc_vars>>

\* PickleHandler alone.
Next ==
  \/ \E d \in LogDirs : PickleInit(d)
  \/ \E n \in Names, m \in Msgs : PickleEmit(n, m)

Spec == Init /\ [][Next]_vars

\* TensorboardHandler alone.
NextTB ==
  \/ \E n \in Names, m \in Msgs : TBEmit(n, m)
  \/ TBClose

SpecTB == Init /\ [][NextTB]_vars

\* Both sinks fed by one program.
NextBoth ==
  /\ now < StartTime + MaxBothEmits
  /\ \/ \E n \in Names, m \in Msgs : PickleEmit(n, m)
     \/ \E n \in Names, m \in Msgs : TBEmit(n, m)
     \/ TBClose

SpecBoth == Init /\ [][NextBoth]_vars

\* Concurrent callers of emit on the PickleHandler: each statement of emit
\* that touches the file is a step of its own.

\* Records the concurrent callers submit.
ConcMsgs ==
  { StrMsg("m1"), StrMsg("m2"), NumMsg(3),
    DictMsg(<<Item(Step, 1), Item(<<"x">>, 5)>>),
    DictMsg(<<Item(Text, 5), Item(Step, 1)>>),
    DictMsg(<<Item(<<"x">>, 5)>>) }

Event(t, op, data) == [t |-> t, op |-> op, data |-> data]

\* The files before the concurrent calls: none, or what one earlier emit left.
InitConc ==
  /\ handler \in { [log_dir |-> d, fresh |-> FALSE] : d \in LogDirs }
  /\ fs \in { PickleHandler_emit(handler.log_dir,
                                 LogRecord(n, m, StartTime - 1), <<>>).files :
                n \in Names, m \in ConcMsgs }
  /\ writer_calls = <<>>
  /\ now = StartTime
  /\ call = Call("none", "none", NoRecord)
  /\ result = "none"
  /\ sent = <<>>
  /\ saved = <<>>
  /\ pc = [t \in Threads |-> "start"]
  /\ trec = [t \in Threads |-> NoRecord]
  /\ tdata = [t \in Threads |-> <<>>]
  /\ events = <<>>

seq_vars == <<handler, writer_calls, call, result, sent, saved>>

\* emit is entered: data = self._maybe_load(record.name)
CLoad(t, name, msg) ==
  /\ pc[t] = "start"
  /\ \E loaded \in {maybe_load(handler.log_dir, name, fs)} :
       /\ pc' = [pc EXCEPT ![t] = IF loaded.ok THEN "loaded" ELSE "EOFError"]
       /\ tdata' = [tdata EXCEPT ![t] = loaded.data]
       /\ events' = Append(events, Event(t, "load", loaded.data))
  /\ trec' = [trec EXCEPT ![t] = LogRecord(name, msg, now)]
  /\ now' = now + 1
  /\ UNCHANGED <<fs, seq_vars>>

\* the isinstance branches: _add_text, _add_scalars or the TypeError
CMutate(t) ==
  /\ pc[t] = "loaded"
  /\ IF trec[t].msg.kind = "str"
     THEN /\ tdata' = [tdata EXCEPT ![t] = Pickle_add_text(trec[t], @)]
          /\ pc' = [pc EXCEPT ![t] = "mutated"]
     ELSE IF trec[t].msg.kind = "dict"
     THEN \E r \in {Pickle_add_scalars(trec[t], tdata[t])} :
            /\ tdata' = [tdata EXCEPT ![t] = r.data]
            /\ pc' = [pc EXCEPT ![t] = IF r.ok THEN "mutated"
                                       ELSE "AttributeError"]
     ELSE /\ pc' = [pc EXCEPT ![t] = "TypeError"]
          /\ UNCHANGED tdata
  /\ UNCHANGED <<fs, now, trec, events, seq_vars>>

\* _save: open(file_path, "wb")
COpen(t) ==
  /\ pc[t] = "mutated"
  /\ fs' = open_wb(fs, SavePath(handler.log_dir, trec[t].name))
  /\ pc' = [pc EXCEPT ![t] = "opened"]
  /\ events' = Append(events, Event(t, "open", <<>>))
  /\ UNCHANGED <<now, trec, tdata, seq_vars>>

\* _save: pickle.dump(data, f) and the end of the with block
CWrite(t) ==
  /\ pc[t] = "opened"
  /\ fs' = write_close(fs, SavePath(handler.log_dir, trec[t].name),
                       pickle_dump(tdata[t]))
  /\ pc' = [pc EXCEPT ![t] = "done"]
  /\ events' = Append(events, Event(t, "write", <<>>))
  /\ UNCHANGED <<now, trec, tdata, seq_vars>>

NextConc ==
  \/ \E t \in Threads, n \in Names, m \in ConcMsgs : CLoad(t, n, m)
  \/ \E t \in Threads : CMutate(t)
  \/ \E t \in Threads : COpen(t)
  \/ \E t \in Threads : CWrite(t)

SpecConc == InitConc /\ [][NextConc]_vars

\* ------------------------------------------------------------------ claims

\* The persisted Snapshot of a stream: what a sink on log_dir loads for it.
Persisted(log_dir, name) == maybe_load(log_dir, name, fs).data

HasItem(m, k) == \E i \in DOMAIN m.items : m.items[i].k = k

ItemValue(m, k) == m.items[CHOOSE i \in DOMAIN m.items : m.items[i].k = k].v

\* {log_dir}/{name with "." replaced by "_"}.pkl
StoragePath(log_dir, name) == <<log_dir, Replace(name, ".", "_") \o PklSuffix>>

\* Two different names with one storage key.
Collide(n1, n2) == n1 # n2 /\ Replace(n1, ".", "_") = Replace(n2, ".", "_")

IsPrefix(s, t) == Len(s) <= Len(t) /\ SubSeq(t, 1, Len(s)) = s

TextField(texts) ==
  <<[k |-> Text, v |-> [i \in 1..Len(texts) |-> StrEntry(texts[i])]]>>

\* The step just taken is PickleHandler.emit / TensorboardHandler.emit.
PickleEmitted == call'.sink = "pickle" /\ call'.op = "emit"
TBEmitted == call'.sink = "tb" /\ call'.op = "emit"

\* C1: when every record submitted so far under a stream name was a text
\* record (m1, ..., mn in that order, starting with no blob) and nothing was
\* submitted under a name with the same storage key, the persisted Snapshot is
\* exactly {"text": [m1, ..., mn]}.
C1_TextOrder ==
  \A d \in LogDirs, n \in Names :
    ( /\ <<d, n>> \in DOMAIN sent
      /\ sent[<<d, n>>].only_text
      /\ \A n2 \in Names : Collide(n, n2) => <<d, n2>> \notin DOMAIN sent )
    => /\ StoragePath(d, n) \in DOMAIN fs
       /\ Persisted(d, n) = TextField(sent[<<d, n>>].texts)

C1_Witness ==
  \E d \in LogDirs, n \in Names :
    /\ <<d, n>> \in DOMAIN sent
    /\ sent[<<d, n>>].only_text
    /\ sent[<<d, n>>].texts = <<"m1", "m2", "m1">>
    /\ \A n2 \in Names : Collide(n, n2) => <<d, n2>> \notin DOMAIN sent
    /\ Persisted(d, n) = TextField(<<"m1", "m2", "m1">>)

\* C2: a dict record with "step": s appends, for every other key k with
\* value v, exactly one entry {step: s, value: v, time: record.created} to
\* the end of field k (created if absent) and leaves the other fields alone;
\* no persisted Snapshot ever has a field named "step".
C2_ScalarsAppended ==
  /\ [](\A d \in LogDirs, n \in Names : ~HasKey(Persisted(d, n), Step))
  /\ [][(PickleEmitted /\ call'.record.msg.kind = "dict"
           /\ HasItem(call'.record.msg, Step))
        => \A r \in {call'.record} :
           \A before \in {maybe_load(handler.log_dir, r.name, fs).data} :
           \A after \in {maybe_load(handler.log_dir, r.name, fs').data} :
             /\ result' = "ok"
             /\ StoragePath(handler.log_dir, r.name) \in DOMAIN fs'
             /\ \A k \in Keys \ {Step} :
                  IF HasItem(r.msg, k)
                  THEN /\ HasKey(after, k)
                       /\ Get(after, k) =
                            Append(Get(before, k),
                                   ScalarEntry(ItemValue(r.msg, Step),
                                               ItemValue(r.msg, k), r.created))
                  ELSE /\ HasKey(after, k) <=> HasKey(before, k)
                       /\ Get(after, k) = Get(before, k)
       ]_vars

C2_Witness ==
  LET r == call.record
      xs == Get(Persisted(handler.log_dir, r.name), <<"x">>)
      ts == Get(Persisted(handler.log_dir, r.name), Text)
  IN /\ call.sink = "pickle" /\ call.op = "emit" /\ result = "ok"
     /\ r.msg.kind = "dict"
     /\ HasItem(r.msg, <<"x">>) /\ HasItem(r.msg, Text)
     /\ Len(xs) = 2 /\ xs[2] = ScalarEntry(1, 5, r.created)
     /\ ts = <<ScalarEntry(1, 5, r.created)>>

\* C3: a dict record without "step" raises the AttributeError and writes
\* nothing: every file is what it was, and no file appears.
C3_MissingStep ==
  [][(PickleEmitted /\ call'.record.msg.kind = "dict"
        /\ ~HasItem(call'.record.msg, Step))
     => /\ result' = "AttributeError"
        /\ fs' = fs
    ]_vars

C3_Witness ==
  LET r == call.record
  IN /\ call.sink = "pickle" /\ call.op = "emit"
     /\ r.msg.kind = "dict" /\ ~HasItem(r.msg, Step) /\ HasItem(r.msg, <<"x">>)
     /\ result = "AttributeError"
     /\ Len(Get(Persisted(handler.log_dir, r.name), <<"x">>)) = 2

\* C5: a record submitted under one stream name never changes the persisted
\* Snapshot of a different stream name.
C5_StreamsSeparate ==
  [][PickleEmitted
     => \A n2 \in Names \ {call'.record.name} :
          maybe_load(handler.log_dir, n2, fs')
            = maybe_load(handler.log_dir, n2, fs)
    ]_vars

\* C6: in every persisted Snapshot the entries of "text" are raw strings and
\* the entries of every other field are {step, value, time} triples.
C6_EntryShapes ==
  \A d \in LogDirs, n \in Names :
    LET p == Persisted(d, n)
    IN \A i \in DOMAIN p : \A j \in DOMAIN p[i].v :
         p[i].v[j].kind = (IF p[i].k = Text THEN "str" ELSE "scalar")

\* C7: the sink instance in use (a fresh one included) loads, for every
\* stream name, exactly the data last saved to the stream's blob on its
\* log_dir, and the empty Snapshot, without error, when there is no blob; a
\* record it then adds goes after all the entries saved before.
C7_RoundTrip ==
  /\ [](\A n \in Names :
        \A path \in {StoragePath(handler.log_dir, n)} :
        \A loaded \in {maybe_load(handler.log_dir, n, fs)} :
          /\ loaded.ok
          /\ path \in DOMAIN fs <=> path \in DOMAIN saved
          /\ loaded.data = (IF path \in DOMAIN saved THEN saved[path]
                            ELSE <<>>))
  /\ [][(PickleEmitted /\ result' = "ok")
        => \A r \in {call'.record} :
           \A path \in {StoragePath(handler.log_dir, r.name)} :
           \A before \in {IF path \in DOMAIN saved THEN saved[path] ELSE <<>>} :
           \A after \in {maybe_load(handler.log_dir, r.name, fs').data} :
             /\ \A k \in Keys : IsPrefix(Get(before, k), Get(after, k))
             /\ r.msg.kind = "str"
                  => Get(after, Text)
                       = Append(Get(before, Text), StrEntry(r.msg.str))
       ]_vars

C7_Witness ==
  /\ call.op = "init" /\ result = "constructed" /\ handler.fresh
  /\ \E n \in Names : Len(Get(Persisted(handler.log_dir, n), Text)) = 2
  /\ \E n \in Names : StoragePath(handler.log_dir, n) \notin DOMAIN fs

\* C4: a record whose message is neither a str nor a dict raises the
\* TypeError in both handlers, and the call changes no file and makes no call
\* to the writer.
C4_TypeError ==
  [][((PickleEmitted \/ TBEmitted)
        /\ call'.record.msg.kind # "str" /\ call'.record.msg.kind # "dict")
     => /\ result' = "TypeError"
        /\ fs' = fs
        /\ writer_calls' = writer_calls
    ]_vars

C4_Witness ==
  /\ call.op = "emit" /\ call.record.msg.kind = "num"
  /\ result = "TypeError"
  /\ IF call.sink = "pickle"
     THEN StoragePath(handler.log_dir, call.record.name) \in DOMAIN fs
     ELSE writer_calls # <<>>

\* C8: a dict record with "step": s under name n forwards exactly one
\* add_scalar per key k other than "step", tagged n with "." replaced by "/",
\* then "/" and k, with the key's value at step s, and none for "step"; without
\* "step" the AttributeError is raised and nothing is forwarded.
C8_ScalarsForwarded ==
  [][(TBEmitted /\ call'.record.msg.kind = "dict")
     => LET r == call'.record
            path == Replace(r.name, ".", "/")
            new == SubSeq(writer_calls', Len(writer_calls) + 1,
                          Len(writer_calls'))
        IN /\ IsPrefix(writer_calls, writer_calls')
           /\ IF HasItem(r.msg, Step)
              THEN /\ result' = "ok"
                   /\ Len(new) = Len(r.msg.items) - 1
                   /\ \A k \in Keys \ {Step} :
                        HasItem(r.msg, k)
                        => Cardinality(
                             { i \in DOMAIN new :
                                 new[i] = AddScalar(path \o <<"/">> \o k,
                                                    ItemValue(r.msg, k),
                                                    ItemValue(r.msg, Step)) })
                           = 1
              ELSE /\ result' = "AttributeError"
                   /\ new = <<>>
    ]_vars

C8_Witness ==
  /\ call.sink = "tb" /\ call.op = "emit" /\ result = "ok"
  /\ call.record.name = <<"a", ".", "b">>
  /\ Len(call.record.msg.items) = 3
  /\ Len(writer_calls) = 3
  /\ writer_calls[1].op = "add_text"
  /\ \E i \in 2..3 :
       writer_calls[i] = AddScalar(<<"a", "/", "b", "/", "x">>, 5, 1)
  /\ \E i \in 2..3 :
       writer_calls[i] = AddScalar(<<"a", "/", "b", "/">> \o Text, 5, 1)

\* C9: once close() was called the writer receives nothing more: no second
\* close, no add_text, no add_scalar.
C9_ClosedIsTerminal ==
  \A i, j \in DOMAIN writer_calls :
    (i < j /\ writer_calls[i].op = "close")
    => writer_calls[j].op \notin {"close", "add_text", "add_scalar"}

\* What a record adds to field k when it is handled alone: one entry or none.
Contrib(r, k) ==
  IF r.msg.kind = "str" THEN (IF k = Text THEN 1 ELSE 0)
  ELSE IF r.msg.kind = "dict" /\ k # Step /\ HasItem(r.msg, k) THEN 1
  ELSE 0

\* C10: two emits for one file that both load before either opens the file
\* for writing and that both return: the file then holds what was loaded plus
\* the entries of the caller that wrote last, and none of the other's.
C10_LostUpdate ==
  ( /\ pc[1] = "done" /\ pc[2] = "done"
    /\ SavePath(handler.log_dir, trec[1].name)
         = SavePath(handler.log_dir, trec[2].name)
    /\ events[1].op = "load" /\ events[2].op = "load" )
  => LET last == events[Len(events)].t
         start == events[1].data
         final == maybe_load(handler.log_dir, trec[last].name, fs)
     IN /\ events[2].data = start
        /\ final.ok
        /\ \A k \in Keys :
             Len(Get(final.data, k))
               = Len(Get(start, k)) + Contrib(trec[last], k)

C10_Witness ==
  /\ pc[1] = "done" /\ pc[2] = "done"
  /\ trec[1].name = trec[2].name
  /\ trec[1].msg = StrMsg("m1") /\ trec[2].msg = StrMsg("m2")
  /\ events[1].op = "load" /\ events[2].op = "load"
  /\ Len(events[1].data) = 1
  /\ events[Len(events)].t = 1
  /\ Get(Persisted(handler.log_dir, trec[1].name), Text)
       = Append(Get(events[1].data, Text), StrEntry("m1"))

====
